---- MODULE Spec2Model ----
(***************************************************************************)
(* A model of the page-object test suite: the driver fixture, the base     *)
(* page layer, the Home / Search / Stream page objects and the scenario    *)
(* test_load_streaming.  The browser is the environment: it decides what   *)
(* each page looks like when it loads, and it may add or replace the       *)
(* search results while the test scrolls and scans them.                   *)
(***************************************************************************)
EXTENDS Integers, Sequences, FiniteSets, TLC

(* ------------------------------ bounds --------------------------------- *)
\* page-object calls made in one run of SpecOps
MaxCalls == 3
\* largest timeout argument, in poll intervals, a caller passes to click_element
MaxTimeout == 2
\* longest result list the page shows
MaxLen == 3
\* how many times the page replaces or extends the result list in one run
MaxChanges == 2

(* ------------------------- program constants --------------------------- *)
\* search_page.py:76  max_attempts = 3
max_attempts == 3
\* settings.py:22  SUPPORTED_BROWSERS = ['Chrome', 'Edge']
SUPPORTED_BROWSERS == {"Chrome", "Edge"}
\* stream_page.py:54  readyState >= 3
READY_THRESHOLD == 3
\* settings.py:26  DEFAULT_WAIT_TIMEOUT, taken in poll intervals of the wait
DEFAULT_WAIT_TIMEOUT == 5
\* test_load_streaming.py:24 and :37
TOPIC == "StarCraft II"
SCREENSHOT_NAME == "stream_page_loaded"

\* values of the --Browser option the run may be started with
Browsers == {"Chrome", "Edge", "Headless Chrome", "Firefox"}

(* ------------------------------ the page -------------------------------- *)
\* a search result either carries the live badge image or not
Kinds == {"offline", "live"}
Doms == UNION {[1..n -> Kinds] : n \in 0..MaxLen}
\* what a banner button can be when its page has loaded
BannerStates == {"absent", "present", "unclickable", "sticky"}
ReadyStates == 0..4

BlankPage ==
    [kind |-> "blank", title |-> FALSE, cookies |-> "absent",
     btn_search |-> FALSE, input_search |-> FALSE, input_stays |-> FALSE,
     tab_channels |-> FALSE, url_channels |-> FALSE,
     video_banner |-> "absent", video |-> FALSE, video_stays |-> FALSE,
     readyState |-> 0]

VARIABLES
    browser,       \* the --Browser option of the run
    driver,        \* the driver fixture's value: a session id, 0 before it exists
    sessions,      \* ids of the browser sessions that are alive
    created,       \* how many drivers were constructed so far
    pages,         \* the session each page object holds (0: not built yet)
    pc,            \* position of the run: a fixture, a line of the test, teardown
    outcome,       \* "running", "passed" or the name of the exception raised
    errAttempts,   \* the attempt count the no-live-stream error carries
    page,          \* the page the browser shows, as the waits observe it
    dom,           \* the result list of the page, in document order
    stale,         \* TRUE when the page replaced the elements of `channels`
    spinner,       \* TRUE when the loading spinner stays visible
    blocked,       \* TRUE when the channel to click never gets displayed and enabled
    changes,       \* how often the page changed the result list
    sel,           \* position inside select_stream_from_results
    attempt,       \* its loop variable
    found_stream,  \* its flag
    channels,      \* its snapshot of the result list
    idx,           \* position of the scan in `channels`
    fetches,       \* find_elements calls made by select_stream_from_results
    scrolls,       \* scroll_to_bottom calls made by select_stream_from_results
    clicked,       \* snapshot positions select_stream_from_results clicked
    hadLive,       \* per round fetched so far: did its snapshot hold a live badge
    refetched,     \* a round fetched after the page had replaced the last snapshot
    typed,         \* what search_topic sent to the page, in order
    files,         \* screenshot files on disk
    log,           \* the steps of the scenario that completed, in order
    cookie,        \* page-object calls: the consent banner of the page
    vbanner,       \* page-object calls: the start-watching banner of the page
    opCalls,       \* page-object calls made so far
    opClicks,      \* clicks those calls dispatched
    opWaits,       \* waits those calls started
    opLast,        \* the last call: [op, arg, ret, exc]
    wOp,           \* bounded wait: the operation that waits
    wArg,          \* its timeout argument in seconds (-1: None, not given)
    wDeadline,     \* end_time of the wait, in poll intervals since its start
    now,           \* poll intervals elapsed since the wait started
    wState         \* "idle", "polling", "returned" or "timeout"

fixtureVars == <<browser, driver, sessions, created, pages>>
selVars == <<sel, attempt, found_stream, channels, idx, fetches, scrolls,
             clicked, hadLive, refetched>>
domVars == <<dom, stale, spinner, blocked, changes>>
opVars == <<cookie, vbanner, opCalls, opClicks, opWaits, opLast>>
waitVars == <<wOp, wArg, wDeadline, now, wState>>
auxVars == <<opVars, waitVars>>
runVars == <<browser, driver, sessions, created, pages, pc, outcome,
             errAttempts, page, dom, stale, spinner, blocked, changes, sel,
             attempt, found_stream, channels, idx, fetches, scrolls, clicked,
             hadLive, refetched, typed, files, log>>
vars == <<browser, driver, sessions, created, pages, pc, outcome, errAttempts,
          page, dom, stale, spinner, blocked, changes, sel, attempt, found_stream,
          channels, idx, fetches, scrolls, clicked, hadLive, refetched, typed, files, log,
          cookie, vbanner, opCalls, opClicks, opWaits, opLast,
          wOp, wArg, wDeadline, now, wState>>

(* --------------------------- base page layer ---------------------------- *)
\* What the driver reports for a locator: a visible match, a match that is
\* not displayed, no match, or a selector the driver rejects.
LocatorStates == {"visible", "hidden", "absent", "invalid"}

\* WebDriverWait(...).until(EC.visibility_of_element_located(loc)): the wait
\* ignores NoSuchElementException while polling and ends in TimeoutException;
\* any other driver error leaves the wait at once.
get_element(st) ==
    CASE st = "visible" -> "ok"
      [] st \in {"hidden", "absent"} -> "TimeoutException"
      [] OTHER -> "InvalidSelectorException"

\* mutant: the except clause names NoSuchElementException only
check_if_element_exists_NoTimeout(st) ==
    LET r == get_element(st) IN
    IF r = "ok" THEN [ret |-> TRUE, exc |-> "ok"]
    ELSE IF r = "NoSuchElementException" THEN [ret |-> FALSE, exc |-> "ok"]
    ELSE [ret |-> FALSE, exc |-> r]

\* [ret |-> the boolean returned, exc |-> "ok" or the exception that leaves]
check_if_element_exists(st) ==
    LET r == get_element(st) IN
    IF r = "ok" THEN [ret |-> TRUE, exc |-> "ok"]
    ELSE IF r \in {"NoSuchElementException", "TimeoutException"}
         THEN [ret |-> FALSE, exc |-> "ok"]
         ELSE [ret |-> FALSE, exc |-> r]

\* WebDriverWait(...).until(EC.element_to_be_clickable(loc)); element.click()
click_element(clickable) == IF clickable THEN "ok" ELSE "TimeoutException"

wait_for_element_visible(visible) == IF visible THEN "ok" ELSE "TimeoutException"

wait_for_element_invisible(visible) == IF visible THEN "TimeoutException" ELSE "ok"

wait_for_url_contains(contains) == IF contains THEN "ok" ELSE "TimeoutException"

wait_for_loading_spinner(stuck) == wait_for_element_invisible(stuck)

\* WebDriverWait(...).until(lambda driver: driver.execute_script(script)):
\* a script that keeps returning false ends in TimeoutException, a script
\* that throws leaves the wait at once with the driver's JavascriptException
wait_for_script_condition(value) ==
    CASE value = "true" -> "ok"
      [] value = "false" -> "TimeoutException"
      [] OTHER -> "JavascriptException"

\* how the driver sees a banner button
BannerLocator(b) == IF b = "absent" THEN "absent" ELSE "visible"
\* whether the banner button is displayed and enabled
BannerClickable(b) == b \in {"present", "sticky"}

(* ------------------------------ fixtures -------------------------------- *)
NoCall == [op |-> "none", arg |-> "none", ret |-> FALSE, exc |-> "ok"]

\* no page-object call and no timed wait is under way
AuxIdle ==
    /\ cookie = "absent"
    /\ vbanner = "absent"
    /\ opCalls = 0
    /\ opClicks = 0
    /\ opWaits = 0
    /\ opLast = NoCall
    /\ wOp = "none"
    /\ wArg = -1
    /\ wDeadline = 0
    /\ now = 0
    /\ wState = "idle"

\* the state of a run before its first fixture
RunIdle ==
    /\ driver = 0
    /\ sessions = {}
    /\ created = 0
    /\ pages = [home |-> 0, search |-> 0, stream |-> 0]
    /\ pc = "get_driver"
    /\ outcome = "running"
    /\ errAttempts = 0
    /\ page = BlankPage
    /\ dom = <<>>
    /\ stale = FALSE
    /\ spinner = FALSE
    /\ blocked = FALSE
    /\ changes = 0
    /\ sel = "idle"
    /\ attempt = 0
    /\ found_stream = FALSE
    /\ channels = <<>>
    /\ idx = 0
    /\ fetches = 0
    /\ scrolls = 0
    /\ clicked = <<>>
    /\ hadLive = <<>>
    /\ refetched = FALSE
    /\ typed = <<>>
    /\ files = {}
    /\ log = <<>>

Init ==
    /\ browser \in Browsers
    /\ RunIdle
    /\ AuxIdle

\* mutant: the Edge branch is missing
create_driver_NoEdge(browser_name) ==
    IF browser_name = "Chrome" THEN "ok"
    ELSE "Exception: Browser is not supported"

\* browser_config.py create_driver: "ok" when a driver is constructed
create_driver(browser_name) ==
    IF browser_name = "Chrome" THEN "ok"
    ELSE IF browser_name = "Edge" THEN "ok"
    ELSE "Exception: Browser is not supported"

\* conftest.py get_driver: the membership test that guards create_driver
browser_supported(b) == b \in SUPPORTED_BROWSERS

\* conftest.py get_driver, up to its yield
get_driver ==
    /\ pc = "get_driver"
    /\ IF ~browser_supported(browser)
       THEN /\ pc' = "finished"
            /\ outcome' = "Exception: Browser not supported"
            /\ UNCHANGED <<created, driver, sessions>>
       ELSE IF create_driver(browser) = "ok"
       THEN /\ created' = created + 1
            /\ driver' = created + 1
            /\ sessions' = sessions \cup {created + 1}
            /\ pc' = "get_home_page"
            /\ outcome' = outcome
       ELSE /\ pc' = "finished"
            /\ outcome' = create_driver(browser)
            /\ UNCHANGED <<created, driver, sessions>>
    /\ UNCHANGED <<auxVars, browser, pages, errAttempts, page, domVars, selVars, typed,
                   files, log>>

\* conftest.py get_home_page / get_search_page / get_stream_page: the session
\* a page object is built with
page_session(name) == driver

get_home_page ==
    /\ pc = "get_home_page"
    /\ pages' = [pages EXCEPT !.home = page_session("home")]
    /\ pc' = "get_search_page"
    /\ UNCHANGED <<auxVars, browser, driver, sessions, created, outcome, errAttempts,
                   page, domVars, selVars, typed, files, log>>

get_search_page ==
    /\ pc = "get_search_page"
    /\ pages' = [pages EXCEPT !.search = page_session("search")]
    /\ pc' = "get_stream_page"
    /\ UNCHANGED <<auxVars, browser, driver, sessions, created, outcome, errAttempts,
                   page, domVars, selVars, typed, files, log>>

get_stream_page ==
    /\ pc = "get_stream_page"
    /\ pages' = [pages EXCEPT !.stream = page_session("stream")]
    /\ pc' = "open"
    /\ UNCHANGED <<auxVars, browser, driver, sessions, created, outcome, errAttempts,
                   page, domVars, selVars, typed, files, log>>

(* ------------------------- the scenario's steps ------------------------- *)
\* One line of the test body returned r: the test goes on to `next`, or the
\* exception leaves the test body and the fixtures are torn down.
Step(r, next, ev) ==
    /\ pc' = IF r = "ok" THEN next ELSE "teardown"
    /\ outcome' = IF r = "ok" THEN outcome ELSE r
    /\ log' = IF r = "ok" THEN Append(log, ev) ELSE log

HomePages ==
    {[BlankPage EXCEPT !.kind = "home", !.title = t, !.cookies = c,
                       !.btn_search = b, !.input_search = i,
                       !.input_stays = k] :
        t \in BOOLEAN, c \in BannerStates, b \in BOOLEAN, i \in BOOLEAN,
        k \in BOOLEAN}

\* home_page.py open: driver.get(url); the browser shows some home page
open ==
    /\ pc = "open"
    /\ page' \in HomePages
    /\ Step("ok", "is_loaded", "open")
    /\ UNCHANGED <<auxVars, fixtureVars, errAttempts, domVars, selVars, typed, files>>

\* home_page.py is_loaded: the title comparison
is_loaded(title_matches) == title_matches

\* test_load_streaming.py:19  assert home_page.is_loaded()
assert_is_loaded ==
    /\ pc = "is_loaded"
    /\ Step(IF is_loaded(page.title) THEN "ok" ELSE "AssertionError",
            "handle_cookies_banner", "is_loaded")
    /\ UNCHANGED <<auxVars, fixtureVars, errAttempts, page, domVars, selVars, typed,
                   files>>

\* what a banner is after its button was clicked
AfterClick(b) == IF b = "sticky" THEN "sticky" ELSE "absent"

\* mutant: the call returns after the click, the invisibility wait left out
handle_cookies_banner_NoWait(b) ==
    LET e == check_if_element_exists(BannerLocator(b)) IN
    IF e.exc # "ok" THEN [exc |-> e.exc, clicks |-> 0, waits |-> 1, banner |-> b]
    ELSE IF ~e.ret THEN [exc |-> "ok", clicks |-> 0, waits |-> 1, banner |-> b]
    ELSE LET c == click_element(BannerClickable(b)) IN
         IF c # "ok" THEN [exc |-> c, clicks |-> 0, waits |-> 2, banner |-> b]
         ELSE [exc |-> "ok", clicks |-> 1, waits |-> 2, banner |-> AfterClick(b)]

\* mutant: the button is clicked without the existence check
handle_cookies_banner_NoCheck(b) ==
    LET c == click_element(BannerClickable(b)) IN
    IF c # "ok" THEN [exc |-> c, clicks |-> 0, waits |-> 1, banner |-> b]
    ELSE [exc |-> wait_for_element_invisible(AfterClick(b) # "absent"),
          clicks |-> 1, waits |-> 2, banner |-> AfterClick(b)]

\* home_page.py handle_cookies_banner on a banner in state b:
\* [exc, clicks made, waits started, the banner afterwards]
handle_cookies_banner(b) ==
    LET e == check_if_element_exists(BannerLocator(b)) IN
    IF e.exc # "ok" THEN [exc |-> e.exc, clicks |-> 0, waits |-> 1, banner |-> b]
    ELSE IF ~e.ret THEN [exc |-> "ok", clicks |-> 0, waits |-> 1, banner |-> b]
    ELSE LET c == click_element(BannerClickable(b)) IN
         IF c # "ok" THEN [exc |-> c, clicks |-> 0, waits |-> 2, banner |-> b]
         ELSE [exc |-> wait_for_element_invisible(AfterClick(b) # "absent"),
               clicks |-> 1, waits |-> 3, banner |-> AfterClick(b)]

\* stream_page.py handle_video_banner on a banner in state b
handle_video_banner(b) ==
    LET e == check_if_element_exists(BannerLocator(b)) IN
    IF e.exc # "ok" THEN [exc |-> e.exc, clicks |-> 0, waits |-> 1, banner |-> b]
    ELSE IF ~e.ret THEN [exc |-> "ok", clicks |-> 0, waits |-> 1, banner |-> b]
    ELSE LET c == click_element(BannerClickable(b)) IN
         IF c # "ok" THEN [exc |-> c, clicks |-> 0, waits |-> 2, banner |-> b]
         ELSE [exc |-> "ok", clicks |-> 1, waits |-> 2, banner |-> AfterClick(b)]

\* test_load_streaming.py:21
cookies_step ==
    /\ pc = "handle_cookies_banner"
    /\ LET h == handle_cookies_banner(page.cookies) IN
        /\ page' = [page EXCEPT !.cookies = h.banner]
        /\ Step(h.exc, "search_topic", "handle_cookies_banner")
    /\ UNCHANGED <<auxVars, fixtureVars, errAttempts, domVars, selVars, typed, files>>

\* one interaction the page receives: a click, or keys sent to an element
Sent(op, on, val) == [op |-> op, on |-> on, val |-> val]

\* base_page.py type_element: get_element(by_locator).send_keys(text)
type_element(visible, text) ==
    LET g == get_element(IF visible THEN "visible" ELSE "absent") IN
    [exc |-> g,
     sent |-> IF g = "ok" THEN <<Sent("send_keys", "input_search", text)>>
              ELSE <<>>]

\* base_page.py send_keys: get_element(by_locator).send_keys(key)
send_keys(visible, key) ==
    LET g == get_element(IF visible THEN "visible" ELSE "absent") IN
    [exc |-> g,
     sent |-> IF g = "ok" THEN <<Sent("send_keys", "input_search", key)>>
              ELSE <<>>]

\* mutant: the topic is typed and the Enter keystroke is left out
search_topic_NoSubmit(topic_name, btn_clickable, input_visible, input_stays) ==
    LET c == click_element(btn_clickable)
        t == type_element(input_visible, topic_name)
        click == <<Sent("click", "btn_search", "")>>
    IN  IF c # "ok" THEN [exc |-> c, keys |-> <<>>]
        ELSE [exc |-> t.exc, keys |-> click \o t.sent]

\* search_page.py search_topic: [exc, what the page received, in order];
\* input_visible is what type_element's wait finds, input_stays what the
\* wait of send_keys finds after the topic was typed
search_topic(topic_name, btn_clickable, input_visible, input_stays) ==
    LET c == click_element(btn_clickable)
        t == type_element(input_visible, topic_name)
        k == send_keys(input_stays, "ENTER")
        click == <<Sent("click", "btn_search", "")>>
    IN  IF c # "ok" THEN [exc |-> c, keys |-> <<>>]
        ELSE IF t.exc # "ok" THEN [exc |-> t.exc, keys |-> click]
        ELSE [exc |-> k.exc, keys |-> click \o t.sent \o k.sent]

\* the result pages the search on page p may lead to
ResultPages(p) ==
    {[p EXCEPT !.kind = "results", !.tab_channels = t, !.url_channels = u] :
        t \in BOOLEAN, u \in BOOLEAN}

\* test_load_streaming.py:24; the Enter keystroke loads a result page
search_step ==
    /\ pc = "search_topic"
    /\ LET s == search_topic(TOPIC, page.btn_search, page.input_search,
                              page.input_stays) IN
        /\ typed' = typed \o s.keys
        /\ IF s.exc = "ok"
           THEN /\ page' \in ResultPages(page)
                /\ dom' \in Doms
           ELSE UNCHANGED <<page, dom>>
        /\ Step(s.exc, "select_channels_tab", "search_topic")
    /\ UNCHANGED <<auxVars, fixtureVars, errAttempts, stale, spinner, blocked,
                   changes, selVars, files>>

\* mutant: a failed URL wait is caught and the tab counts as loaded
select_channels_tab_SwallowUrl(tab_clickable, url_ok, list_visible) ==
    LET c == click_element(tab_clickable)
        v == wait_for_element_visible(list_visible)
    IN  IF c # "ok" THEN c ELSE v

\* search_page.py select_channels_tab
select_channels_tab(tab_clickable, url_ok, list_visible) ==
    LET c == click_element(tab_clickable)
        u == wait_for_url_contains(url_ok)
        v == wait_for_element_visible(list_visible)
    IN  IF c # "ok" THEN c ELSE IF u # "ok" THEN u ELSE v

\* test_load_streaming.py:26
tab_step ==
    /\ pc = "select_channels_tab"
    /\ Step(select_channels_tab(page.tab_channels, page.url_channels,
                                Len(dom) > 0),
            "scroll1", "select_channels_tab")
    /\ UNCHANGED <<auxVars, fixtureVars, errAttempts, page, domVars, selVars, typed,
                   files>>

\* base_page.py scroll_to_bottom: the script, then the spinner wait; `stuck`
\* is whether the spinner this scroll brings up stays visible
scroll_to_bottom(stuck) == wait_for_loading_spinner(stuck)

\* test_load_streaming.py:28-29
scroll_step ==
    /\ pc \in {"scroll1", "scroll2"}
    /\ \E s \in BOOLEAN :
        /\ spinner' = s
        /\ Step(scroll_to_bottom(s),
                IF pc = "scroll1" THEN "scroll2" ELSE "select_stream",
                "scroll_to_bottom")
    /\ UNCHANGED <<auxVars, fixtureVars, errAttempts, page, dom, stale, blocked,
                   changes, selVars, typed, files>>

(* --------------------- select_stream_from_results ----------------------- *)
HasLive(list) == \E i \in 1..Len(list) : list[i] # "offline"

\* mutant: the list is fetched in the first round and reused in the later ones
find_elements_Cached(list) == IF fetches = 0 THEN list ELSE channels

\* base_page.py find_elements: the snapshot of the current result list
find_elements(list) == list

\* mutant: the probe's except clause catches every driver error
find_live_badge_CatchAll(kind, detached) ==
    IF detached \/ kind = "offline" THEN "NoSuchElementException" ELSE "ok"

\* mutant: the probe is truthy for every channel
find_live_badge_Any(kind, detached) ==
    IF detached THEN "StaleElementReferenceException" ELSE "ok"

\* search_page.py:84  channel.find_element(live badge) on a snapshot element
find_live_badge(kind, detached) ==
    IF detached THEN "StaleElementReferenceException"
    ELSE IF kind = "offline" THEN "NoSuchElementException"
    ELSE "ok"

\* mutant: the element is clicked without the wait for displayed and enabled
click_web_element_NoWait(detached, never_clickable) ==
    IF detached THEN "StaleElementReferenceException" ELSE "ok"

\* base_page.py click_web_element: wait until displayed and enabled, click
click_web_element(detached, never_clickable) ==
    IF detached THEN "StaleElementReferenceException"
    ELSE IF never_clickable THEN "TimeoutException"
    ELSE "ok"

\* mutant: the loop runs one round too many
more_rounds_OneMore(a) == a < max_attempts

\* search_page.py:79  for attempt in range(max_attempts): is there a next round
more_rounds(a) == a + 1 < max_attempts

\* mutant: a scroll follows every round without a live result, the last too
scroll_wanted_Always(a) == a < max_attempts

\* mutant: off by one, no scroll after the second round
scroll_wanted_OffByOne(a) == a < max_attempts - 2

\* search_page.py:94  if attempt < max_attempts - 1
scroll_wanted(a) == a < max_attempts - 1

\* the video element of a stream page: <<it becomes visible, it is still in
\* the document when the ready-state script runs, its ready state>>; a
\* document without a video element has no ready state to tell apart
VideoStates ==
    {w \in BOOLEAN \X BOOLEAN \X ReadyStates : w[2] \/ w[3] = 0}

\* the stream pages a click on a channel of page p may lead to
StreamPages(p) ==
    {[p EXCEPT !.kind = "stream", !.video_banner = b, !.video = v[1],
               !.video_stays = v[2], !.readyState = v[3]] :
        b \in BannerStates, v \in VideoStates}

\* an exception leaves select_stream_from_results and the test body
SelRaise(e) ==
    /\ pc' = "teardown"
    /\ outcome' = e
    /\ sel' = "raised"

\* search_page.py:80  one round's fetch of the channel list
sel_fetch ==
    /\ pc = "select_stream"
    /\ sel \in {"idle", "fetch"}
    /\ channels' = find_elements(dom)
    /\ stale' = FALSE
    /\ idx' = 1
    /\ fetches' = fetches + 1
    /\ hadLive' = Append(hadLive, HasLive(dom))
    /\ refetched' = (refetched \/ stale)
    /\ sel' = "scan"
    /\ UNCHANGED <<auxVars, fixtureVars, pc, outcome, errAttempts, page, dom, spinner,
                   blocked, changes, attempt, found_stream, scrolls, clicked, typed,
                   files, log>>

\* search_page.py:82-89  the scan reaches the next channel and probes it
sel_probe ==
    /\ pc = "select_stream"
    /\ sel = "scan"
    /\ IF idx > Len(channels)
       THEN /\ sel' = "round_end"
            /\ UNCHANGED <<pc, outcome, idx>>
       ELSE LET r == find_live_badge(channels[idx], stale) IN
            IF r = "ok"
            THEN /\ sel' = "click"
                 /\ UNCHANGED <<pc, outcome, idx>>
            ELSE IF r = "NoSuchElementException"
            THEN /\ idx' = idx + 1
                 /\ UNCHANGED <<pc, outcome, sel>>
            ELSE /\ SelRaise(r)
                 /\ UNCHANGED idx
    /\ UNCHANGED <<auxVars, fixtureVars, errAttempts, page, domVars, attempt,
                   found_stream, channels, fetches, scrolls, clicked, hadLive, refetched,
                   typed, files, log>>

\* search_page.py:85-87  click the channel whose probe succeeded; the click
\* opens the channel's stream page
sel_click ==
    /\ pc = "select_stream"
    /\ sel = "click"
    /\ \E b \in BOOLEAN :
       LET r == click_web_element(stale, b) IN
        /\ blocked' = b
        /\ IF r = "ok"
           THEN /\ clicked' = Append(clicked, idx)
                /\ found_stream' = TRUE
                /\ sel' = "round_end"
                /\ page' \in StreamPages(page)
                /\ dom' = <<>>
                /\ UNCHANGED <<pc, outcome>>
           ELSE /\ SelRaise(r)
                /\ UNCHANGED <<clicked, found_stream, page, dom>>
    /\ UNCHANGED <<auxVars, fixtureVars, errAttempts, stale, spinner, changes, attempt,
                   channels, idx, fetches, scrolls, hadLive, refetched, typed, files, log>>

\* search_page.py:91-98  after the scan of a round
sel_round_end ==
    /\ pc = "select_stream"
    /\ sel = "round_end"
    /\ \E s \in BOOLEAN :
        IF found_stream
        THEN /\ pc' = "handle_video_banner"
             /\ sel' = "returned"
             /\ log' = Append(log, "select_stream_from_results")
             /\ UNCHANGED <<outcome, errAttempts, spinner, scrolls, attempt>>
        ELSE IF scroll_wanted(attempt) /\ scroll_to_bottom(s) # "ok"
        THEN /\ SelRaise(scroll_to_bottom(s))
             /\ spinner' = s
             /\ scrolls' = scrolls + 1
             /\ UNCHANGED <<errAttempts, attempt, log>>
        ELSE /\ spinner' = IF scroll_wanted(attempt) THEN s ELSE spinner
             /\ scrolls' = IF scroll_wanted(attempt) THEN scrolls + 1 ELSE scrolls
             /\ IF more_rounds(attempt)
                THEN /\ attempt' = attempt + 1
                     /\ sel' = "fetch"
                     /\ UNCHANGED <<pc, outcome, errAttempts, log>>
                ELSE /\ SelRaise("Exception: No live streamers found")
                     /\ errAttempts' = max_attempts
                     /\ UNCHANGED <<attempt, log>>
    /\ UNCHANGED <<auxVars, fixtureVars, page, dom, stale, blocked, changes,
                   found_stream, channels, idx, fetches, clicked, hadLive, refetched,
                   typed, files>>

(* --------------------------- the environment ---------------------------- *)
\* the page re-renders the result list: every element is a new one
dom_replace ==
    /\ pc \in {"scroll1", "scroll2", "select_stream"}
    /\ ~found_stream
    /\ changes < MaxChanges
    /\ dom' \in Doms
    /\ stale' = (Len(channels) > 0)
    /\ changes' = changes + 1
    /\ UNCHANGED <<auxVars, fixtureVars, pc, outcome, errAttempts, page, spinner,
                   blocked, selVars, typed, files, log>>

\* the page loads one more result at the end of the list
dom_append ==
    /\ pc \in {"scroll1", "scroll2", "select_stream"}
    /\ ~found_stream
    /\ changes < MaxChanges
    /\ Len(dom) < MaxLen
    /\ \E k \in Kinds : dom' = Append(dom, k)
    /\ changes' = changes + 1
    /\ UNCHANGED <<auxVars, fixtureVars, pc, outcome, errAttempts, page, stale, spinner,
                   blocked, selVars, typed, files, log>>

(* ----------------------------- stream page ------------------------------ *)
\* test_load_streaming.py:34
video_banner_step ==
    /\ pc = "handle_video_banner"
    /\ LET h == handle_video_banner(page.video_banner) IN
        /\ page' = [page EXCEPT !.video_banner = h.banner]
        /\ Step(h.exc, "wait_to_load_stream", "handle_video_banner")
    /\ UNCHANGED <<auxVars, fixtureVars, errAttempts, domVars, selVars, typed, files>>

\* mutant: the threshold is one too low
ready_script_TooLow(readyState) == readyState >= READY_THRESHOLD - 1

\* stream_page.py:54  the injected script's value
ready_script(readyState) == readyState >= READY_THRESHOLD

\* stream_page.py:54  what one execution of the injected script gives:
\* document.querySelector(selector) is null when no element matches, and
\* reading .readyState of null throws
execute_ready_script(in_document, readyState) ==
    IF ~in_document THEN "throws"
    ELSE IF ready_script(readyState) THEN "true" ELSE "false"

\* mutant: the script wait starts without the visibility wait before it
wait_to_load_stream_NoVisibleWait(video_visible, video_stays, readyState) ==
    [exc |-> wait_for_script_condition(
                 execute_ready_script(video_stays, readyState)),
     script_ran |-> TRUE]

\* stream_page.py wait_to_load_stream: [exc, whether the script was executed]
wait_to_load_stream(video_visible, video_stays, readyState) ==
    LET v == wait_for_element_visible(video_visible) IN
    IF v # "ok" THEN [exc |-> v, script_ran |-> FALSE]
    ELSE [exc |-> wait_for_script_condition(
                      execute_ready_script(video_stays, readyState)),
          script_ran |-> TRUE]

\* test_load_streaming.py:35
wait_stream_step ==
    /\ pc = "wait_to_load_stream"
    /\ Step(wait_to_load_stream(page.video, page.video_stays,
                                page.readyState).exc,
            "take_screenshot", "wait_to_load_stream")
    /\ UNCHANGED <<auxVars, fixtureVars, errAttempts, page, domVars, selVars, typed,
                   files>>

\* base_page.py take_screenshot; test_load_streaming.py:37 is the last line
take_screenshot ==
    /\ pc = "take_screenshot"
    /\ files' = files \cup {SCREENSHOT_NAME}
    /\ pc' = "teardown"
    /\ outcome' = "passed"
    /\ log' = Append(log, "take_screenshot")
    /\ UNCHANGED <<auxVars, fixtureVars, errAttempts, page, domVars, selVars, typed>>

\* mutant: the session is quit only when the test passed
driver_quit_OnlyOnPass(alive, d, result) ==
    IF result = "passed" THEN alive \ {d} ELSE alive

\* conftest.py:67  driver.quit(), run after the yield whatever the test did
driver_quit(alive, d, result) == alive \ {d}

teardown ==
    /\ pc = "teardown"
    /\ sessions' = driver_quit(sessions, driver, outcome)
    /\ pc' = "finished"
    /\ UNCHANGED <<auxVars, browser, driver, created, pages, outcome, errAttempts, page,
                   domVars, selVars, typed, files, log>>

Next ==
    \/ get_driver \/ get_home_page \/ get_search_page \/ get_stream_page
    \/ open \/ assert_is_loaded \/ cookies_step \/ search_step \/ tab_step
    \/ scroll_step
    \/ sel_fetch \/ sel_probe \/ sel_click \/ sel_round_end
    \/ dom_replace \/ dom_append
    \/ video_banner_step \/ wait_stream_step \/ take_screenshot \/ teardown

Spec == Init /\ [][Next]_vars

\* the test runner keeps running the test while a step is possible
FairSpec == Spec /\ WF_vars(Next)

(* ---------------- page-object calls on an arbitrary page ---------------- *)
\* A page object is called any number of times, in any order, on a page whose
\* banners the browser shows and hides as it likes.
InitOps ==
    /\ browser = "Chrome"
    /\ RunIdle
    /\ cookie \in BannerStates
    /\ vbanner \in BannerStates
    /\ opCalls = 0
    /\ opClicks = 0
    /\ opWaits = 0
    /\ opLast = NoCall
    /\ wOp = "none"
    /\ wArg = -1
    /\ wDeadline = 0
    /\ now = 0
    /\ wState = "idle"

\* base_page.py check_if_element_exists called with some locator
call_check_if_element_exists ==
    /\ opCalls < MaxCalls
    /\ \E st \in LocatorStates :
        LET r == check_if_element_exists(st) IN
        opLast' = [op |-> "check_if_element_exists", arg |-> st,
                   ret |-> r.ret, exc |-> r.exc]
    /\ opCalls' = opCalls + 1
    /\ opWaits' = opWaits + 1
    /\ UNCHANGED <<runVars, waitVars, cookie, vbanner, opClicks>>

\* home_page.py handle_cookies_banner called on the current page
call_handle_cookies_banner ==
    /\ opCalls < MaxCalls
    /\ LET h == handle_cookies_banner(cookie) IN
        /\ cookie' = h.banner
        /\ opClicks' = opClicks + h.clicks
        /\ opWaits' = opWaits + h.waits
        /\ opLast' = [op |-> "handle_cookies_banner", arg |-> cookie,
                      ret |-> FALSE, exc |-> h.exc]
    /\ opCalls' = opCalls + 1
    /\ UNCHANGED <<runVars, waitVars, vbanner>>

\* stream_page.py handle_video_banner called on the current page
call_handle_video_banner ==
    /\ opCalls < MaxCalls
    /\ LET h == handle_video_banner(vbanner) IN
        /\ vbanner' = h.banner
        /\ opClicks' = opClicks + h.clicks
        /\ opWaits' = opWaits + h.waits
        /\ opLast' = [op |-> "handle_video_banner", arg |-> vbanner,
                      ret |-> FALSE, exc |-> h.exc]
    /\ opCalls' = opCalls + 1
    /\ UNCHANGED <<runVars, waitVars, cookie>>

\* the browser shows another page: any banner may be there
page_reload ==
    /\ opCalls < MaxCalls
    /\ cookie' \in BannerStates
    /\ vbanner' \in BannerStates
    /\ UNCHANGED <<runVars, waitVars, opCalls, opClicks, opWaits, opLast>>

NextOps ==
    \/ call_check_if_element_exists
    \/ call_handle_cookies_banner
    \/ call_handle_video_banner
    \/ page_reload

SpecOps == InitOps /\ [][NextOps]_vars

(* ------------- single operations on whatever the page is -------------- *)
\* search_topic and wait_to_load_stream are called, in any order, each time
\* on a page that is whatever the browser makes it.
InitCalls ==
    /\ browser = "Chrome"
    /\ RunIdle
    /\ AuxIdle

\* stream_page.py wait_to_load_stream called on some stream page
call_wait_to_load_stream ==
    /\ opCalls < MaxCalls
    /\ \E p \in {q \in StreamPages(BlankPage) : q.video_banner = "absent"} :
        LET w == wait_to_load_stream(p.video, p.video_stays, p.readyState) IN
        /\ page' = p
        /\ opLast' = [op |-> "wait_to_load_stream", arg |-> "stream",
                      ret |-> w.script_ran, exc |-> w.exc]
    /\ opCalls' = opCalls + 1
    /\ opWaits' = opWaits + (IF page'.video THEN 2 ELSE 1)
    /\ UNCHANGED <<fixtureVars, pc, outcome, errAttempts, domVars, selVars,
                   typed, files, log, waitVars, cookie, vbanner, opClicks>>

\* topics a test may search for
Topics == {TOPIC, "Dota 2"}

\* search_page.py search_topic called with some topic on a page where the
\* search button and the input are whatever the browser makes them
call_search_topic ==
    /\ opCalls < MaxCalls
    /\ \E topic \in Topics, btn \in BOOLEAN, input \in BOOLEAN, stays \in BOOLEAN :
        LET s == search_topic(topic, btn, input, stays) IN
        /\ typed' = s.keys
        /\ opLast' = [op |-> "search_topic", arg |-> topic, ret |-> FALSE,
                      exc |-> s.exc]
    /\ opCalls' = opCalls + 1
    /\ UNCHANGED <<fixtureVars, pc, outcome, errAttempts, page, domVars, selVars,
                   files, log, waitVars, cookie, vbanner, opClicks, opWaits>>

NextCalls == call_search_topic \/ call_wait_to_load_stream

SpecCalls == InitCalls /\ [][NextCalls]_vars

(* --------------------------- one bounded wait --------------------------- *)
\* Time is counted in poll intervals of WebDriverWait; timeouts are whole
\* numbers of them.  The awaited condition stays false unless wait_found.
WaitOps ==
    {"get_element", "click_element", "click_web_element",
     "wait_for_loading_spinner", "wait_for_url_contains", "wait_for_url_to_be",
     "wait_for_element_visible", "wait_for_element_invisible",
     "wait_for_script_condition"}
\* -1 stands for None: no timeout argument given
TimeoutArgs == {-1} \cup 0..MaxTimeout

\* base_page.py:97  timeout = timeout or self.implicit_wait
click_timeout(timeout) ==
    IF timeout = -1 \/ timeout = 0 THEN DEFAULT_WAIT_TIMEOUT ELSE timeout

\* the timeout an operation hands to WebDriverWait
wait_timeout(op, timeout) ==
    IF op = "click_element" THEN click_timeout(timeout) ELSE DEFAULT_WAIT_TIMEOUT

InitWait ==
    /\ browser = "Chrome"
    /\ RunIdle
    /\ AuxIdle

\* an operation of the base page starts its wait
wait_start ==
    /\ wState = "idle"
    /\ \E op \in WaitOps, t \in TimeoutArgs :
        /\ op = "click_element" \/ t = -1
        /\ wOp' = op
        /\ wArg' = t
        /\ wDeadline' = wait_timeout(op, t)
    /\ now' = 0
    /\ wState' = "polling"
    /\ UNCHANGED <<runVars, opVars>>

\* WebDriverWait.until: the condition was false at this poll; give up once
\* the clock is past end_time, else sleep one poll interval
wait_poll ==
    /\ wState = "polling"
    /\ IF now > wDeadline
       THEN /\ wState' = "timeout"
            /\ now' = now
       ELSE /\ wState' = wState
            /\ now' = now + 1
    /\ UNCHANGED <<runVars, opVars, wOp, wArg, wDeadline>>

\* the condition is true at this poll: the wait returns
wait_found ==
    /\ wState = "polling"
    /\ now <= wDeadline
    /\ wState' = "returned"
    /\ UNCHANGED <<runVars, opVars, wOp, wArg, wDeadline, now>>

\* the next operation may wait
wait_done ==
    /\ wState \in {"timeout", "returned"}
    /\ wState' = "idle"
    /\ wOp' = "none"
    /\ wArg' = -1
    /\ wDeadline' = 0
    /\ now' = 0
    /\ UNCHANGED <<runVars, opVars>>

NextWait == wait_start \/ wait_poll \/ wait_found \/ wait_done

SpecWait == InitWait /\ [][NextWait]_vars

(* ================================ claims ================================ *)
NoLiveError == "Exception: No live streamers found"
SelEnded == sel \in {"returned", "raised"}
NoRoundLive == \A i \in 1..Len(hadLive) : ~hadLive[i]
FirstLive(list) ==
    CHOOSE i \in 1..Len(list) :
        list[i] # "offline" /\ \A j \in 1..(i - 1) : list[j] = "offline"

\* C1: select_stream_from_results fetches the channel list at most
\* max_attempts (3) times whatever the result list does, and once it has
\* started it ends: it returns or an exception leaves it.
C1_TerminatesWithinThreeRounds ==
    /\ [](fetches <= max_attempts)
    /\ (pc = "select_stream") ~> SelEnded

\* a call that used all three rounds and returned
C1_Witness == sel = "returned" /\ fetches = max_attempts

\* C2 as stated: when select_stream_from_results has ended, its outcome is
\* the no-live-stream error exactly when no round's list held a live badge.
C2_NoLiveErrorIffNoRoundLive ==
    SelEnded => ((outcome = NoLiveError) <=> NoRoundLive)

\* C2 amended: the no-live-stream error is raised only after all three rounds
\* were fetched and none held a live badge; when no round held one the call
\* never returns normally, and it ends in that error unless a driver error
\* (the spinner wait of a scroll timing out, a probe of a replaced element)
\* left the call first.
C2_NoLiveErrorAmended ==
    /\ (outcome = NoLiveError) =>
           (sel = "raised" /\ Len(hadLive) = max_attempts /\ NoRoundLive)
    /\ (SelEnded /\ NoRoundLive) =>
           outcome \in {NoLiveError, "TimeoutException",
                        "StaleElementReferenceException"}
    /\ (SelEnded /\ NoRoundLive /\ ~spinner /\ ~stale) => outcome = NoLiveError

\* three rounds without a live badge and without a driver error
C2_Witness ==
    /\ outcome = NoLiveError
    /\ hadLive = <<FALSE, FALSE, FALSE>>
    /\ ~spinner /\ ~stale

\* C3: once select_stream_from_results has selected a stream it has clicked
\* exactly one element in the whole call, the first element in list order of
\* that round's list that holds a live badge.
C3_ClicksFirstLiveOnly ==
    found_stream =>
        /\ Len(clicked) = 1
        /\ HasLive(channels)
        /\ clicked[1] = FirstLive(channels)

\* a list with two live results: the earlier one was clicked, the later not
C3_Witness ==
    /\ sel = "returned"
    /\ channels = <<"offline", "live", "live">>
    /\ clicked = <<2>>

\* C4: a stream selected in round k was selected after exactly k-1 scrolls;
\* the rounds before k held no live badge.
C4_ScrollsBeforeSelection ==
    found_stream =>
        /\ fetches \in 1..max_attempts
        /\ scrolls = fetches - 1
        /\ hadLive[fetches]
        /\ \A i \in 1..(fetches - 1) : ~hadLive[i]

\* the live result shows up only after two scrolls and is selected in round 3
C4_Witness ==
    /\ sel = "returned"
    /\ hadLive = <<FALSE, FALSE, TRUE>>
    /\ scrolls = 2

\* C5 as stated: check_if_element_exists never raises, whatever the locator
\* and whatever the visibility wait ends in.
C5_ExistsNeverRaises ==
    opLast.op = "check_if_element_exists" => opLast.exc = "ok"

\* C5 amended: when the visibility wait ends in an element, in
\* NoSuchElementException or in TimeoutException, check_if_element_exists
\* raises nothing and returns whether a visible match was found; any other
\* driver error leaves it as raised.
C5_ExistsAmended ==
    opLast.op = "check_if_element_exists" =>
        IF opLast.arg \in {"visible", "hidden", "absent"}
        THEN opLast.exc = "ok" /\ (opLast.ret <=> opLast.arg = "visible")
        ELSE opLast.exc = get_element(opLast.arg)

\* a probe of a locator that matches nothing returned false
C5_Witness ==
    /\ opLast.op = "check_if_element_exists"
    /\ opLast.arg = "absent"
    /\ opLast.ret = FALSE /\ opLast.exc = "ok"

\* C6: a call of handle_cookies_banner or handle_video_banner on a page where
\* its banner locator matches nothing makes no click, starts no wait beyond
\* the existence probe, raises nothing and leaves the page as it was, however
\* many calls came before.
C6_AbsentBannerNoOp ==
    [][/\ (opLast'.op = "handle_cookies_banner" /\ opCalls' = opCalls + 1
           /\ cookie = "absent") =>
              /\ opLast'.exc = "ok"
              /\ opClicks' = opClicks
              /\ opWaits' = opWaits + 1
              /\ cookie' = cookie /\ vbanner' = vbanner
       /\ (opLast'.op = "handle_video_banner" /\ opCalls' = opCalls + 1
           /\ vbanner = "absent") =>
              /\ opLast'.exc = "ok"
              /\ opClicks' = opClicks
              /\ opWaits' = opWaits + 1
              /\ cookie' = cookie /\ vbanner' = vbanner]_vars

\* both handlers were called, several calls in all, with no banner on the
\* page: nothing was clicked and only the probes waited
C6_Witness ==
    /\ opCalls = MaxCalls
    /\ opLast.op \in {"handle_cookies_banner", "handle_video_banner"}
    /\ opLast.arg = "absent" /\ opLast.exc = "ok"
    /\ cookie = "absent" /\ vbanner = "absent"
    /\ opClicks = 0
    /\ opWaits = opCalls

\* the timeout the caller asked for: the argument of click_element when one
\* is given, the default otherwise
RequestedTimeout ==
    IF wOp = "click_element" /\ wArg # -1 THEN wArg ELSE DEFAULT_WAIT_TIMEOUT

\* C7: a bounded wait whose condition never becomes true raises
\* TimeoutException no earlier than the requested timeout T and no later than
\* T plus one poll interval after it started.
C7_TimeoutWithinOnePoll ==
    wState = "timeout" =>
        /\ now >= RequestedTimeout
        /\ now <= RequestedTimeout + 1

\* the key events among what the page received
KeysReceived(received) ==
    LET RECURSIVE keys(_)
        keys(q) == IF q = <<>> THEN <<>>
                   ELSE IF Head(q).op = "send_keys"
                        THEN <<Head(q).val>> \o keys(Tail(q))
                        ELSE keys(Tail(q))
    IN keys(received)

\* the lines of test_load_streaming, in the order the test issues them
ScenarioOrder ==
    <<"open", "is_loaded", "handle_cookies_banner", "search_topic",
      "select_channels_tab", "scroll_to_bottom", "scroll_to_bottom",
      "select_stream_from_results", "handle_video_banner",
      "wait_to_load_stream", "take_screenshot">>
IsPrefix(a, b) == Len(a) <= Len(b) /\ \A i \in 1..Len(a) : a[i] = b[i]

\* what the home page must offer for the scenario's waits on it to succeed
HomeOk ==
    /\ page.title
    /\ page.cookies \notin {"unclickable", "sticky"}
    /\ page.btn_search /\ page.input_search /\ page.input_stays
\* ... the result page: the tab, the URL, a visible list when the tab step
\* looked for it, spinners that clear, a live result within three rounds that
\* stays attached and becomes clickable
ResultsOk ==
    /\ page.tab_channels /\ page.url_channels
    /\ (Len(log) = 4 => Len(dom) > 0)
    /\ ~spinner /\ ~stale /\ ~blocked
    /\ ~(Len(hadLive) = max_attempts /\ NoRoundLive)
\* ... the stream page: a banner that can be dismissed if there is one, a
\* visible video that buffers enough to play
StreamOk ==
    /\ page.video_banner # "unclickable"
    /\ page.video /\ page.video_stays
    /\ page.readyState >= READY_THRESHOLD
ConditionsHeld ==
    /\ page.kind # "blank"
    /\ HomeOk
    /\ page.kind = "results" => ResultsOk
    /\ page.kind = "stream" => StreamOk

C10_OneSessionPerTest ==
    /\ Cardinality(sessions) <= 1
    /\ created <= 1
    /\ pc \notin {"get_driver", "finished"} => (driver # 0 /\ sessions = {driver})
    /\ \A name \in {"home", "search", "stream"} : pages[name] \in {0, driver}
    /\ pc \notin {"get_driver", "get_home_page", "get_search_page",
                  "get_stream_page", "finished"} =>
           \A name \in {"home", "search", "stream"} : pages[name] = driver
    /\ pc = "finished" => sessions = {}

\* the test body raised and the session is gone
C10_Witness ==
    /\ pc = "finished"
    /\ created = 1
    /\ outcome = "TimeoutException"
    /\ sessions = {}

(* ---- error propagation ---- *)
\* the first result in a sequence of call results that is not "ok"
FirstFailure(results) ==
    IF \E i \in 1..Len(results) : results[i] # "ok"
    THEN results[CHOOSE i \in 1..Len(results) :
                     results[i] # "ok" /\ \A j \in 1..(i - 1) : results[j] = "ok"]
    ELSE "ok"

\* What the base-layer operations answer, in call order, when the line of the
\* test at pc makes them in this step; the existence probe of a banner and the
\* live-badge probe are left out.
BaseCalls ==
    CASE pc = "handle_cookies_banner" ->
            IF BannerLocator(page.cookies) = "visible"
            THEN <<click_element(BannerClickable(page.cookies)),
                   wait_for_element_invisible(AfterClick(page.cookies) # "absent")>>
            ELSE <<>>
      [] pc = "search_topic" ->
            <<click_element(page.btn_search),
              get_element(IF page.input_search THEN "visible" ELSE "absent"),
              get_element(IF page.input_stays THEN "visible" ELSE "absent")>>
      [] pc = "select_channels_tab" ->
            <<click_element(page.tab_channels),
              wait_for_url_contains(page.url_channels),
              wait_for_element_visible(Len(dom) > 0)>>
      [] pc \in {"scroll1", "scroll2"} -> <<wait_for_loading_spinner(spinner')>>
      [] pc = "select_stream" /\ sel = "click" ->
            <<click_web_element(stale, blocked')>>
      [] pc = "select_stream" /\ sel = "round_end" /\ ~found_stream
            /\ attempt < max_attempts - 1 ->
            <<wait_for_loading_spinner(spinner')>>
      [] pc = "handle_video_banner" ->
            IF BannerLocator(page.video_banner) = "visible"
            THEN <<click_element(BannerClickable(page.video_banner))>>
            ELSE <<>>
      [] pc = "wait_to_load_stream" ->
            <<wait_for_element_visible(page.video),
              wait_for_script_condition(
                  IF ~page.video_stays THEN "throws"
                  ELSE IF page.readyState >= READY_THRESHOLD THEN "true"
                  ELSE "false")>>
      [] OTHER -> <<>>

\* C11: in every step of the test (the page's own changes aside) the first
\* failure a base-layer operation raises outside the two probes becomes the
\* outcome of the test as it is and ends the test body without the line
\* completing; a line completes only when none of its base-layer operations
\* failed; and once the test body was left no further line runs: nothing is
\* logged, typed, clicked, scrolled, fetched or written any more.
C11_FailuresPropagate ==
    [][changes' = changes =>
         /\ FirstFailure(BaseCalls) # "ok" =>
                /\ outcome' = FirstFailure(BaseCalls)
                /\ pc' = "teardown"
                /\ log' = log
         /\ Len(log') > Len(log) => FirstFailure(BaseCalls) = "ok"
         /\ outcome # "running" =>
                /\ pc' \in {"teardown", "finished"}
                /\ outcome' = outcome
                /\ UNCHANGED <<log, typed, files, page, clicked, scrolls,
                               fetches>>]_vars

\* the URL wait of select_channels_tab timed out after its click went through:
\* the test body was left with that error after the fourth line
C11_Witness ==
    /\ pc = "finished"
    /\ outcome = "TimeoutException"
    /\ log = <<"open", "is_loaded", "handle_cookies_banner", "search_topic">>
    /\ page.tab_channels /\ ~page.url_channels

(* ---- search_topic ---- *)
\* what search_topic(topic) sends when nothing fails, in order
SearchSequence(topic) ==
    <<Sent("click", "btn_search", ""),
      Sent("send_keys", "input_search", topic),
      Sent("send_keys", "input_search", "ENTER")>>

\* C12: whatever a call of search_topic(topic) has sent to the page is a
\* prefix of: the click on the search button, the topic typed into the search
\* input, the Enter key sent to it; when the call returned it has sent all
\* three, so the input received the topic and then one Enter, nothing else.
C12_ClickTypeEnter ==
    opLast.op = "search_topic" =>
        /\ IsPrefix(typed, SearchSequence(opLast.arg))
        /\ opLast.exc = "ok" =>
               /\ typed = SearchSequence(opLast.arg)
               /\ KeysReceived(typed) = <<opLast.arg, "ENTER">>

\* a call with the second topic returned
C12_Witness ==
    /\ opLast.op = "search_topic" /\ opLast.exc = "ok"
    /\ opLast.arg = "Dota 2"
    /\ Len(typed) = 3

(* ---- the scroll between rounds ---- *)
\* C13: a step of select_stream_from_results scrolls exactly when it ends a
\* round whose list held no live badge and fewer than max_attempts rounds
\* were fetched; it scrolls once then.  When the call ends in the
\* no-live-stream error it fetched three rounds, none with a live badge, and
\* scrolled twice, and the error carries the attempt count 3; no other
\* outcome carries a count.
C13_ScrollIffNoLiveAndAttemptsRemain ==
    /\ [][(pc = "select_stream" /\ changes' = changes) =>
             /\ scrolls' \in {scrolls, scrolls + 1}
             /\ scrolls' = scrolls + 1 <=>
                    /\ sel = "round_end"
                    /\ ~hadLive[fetches]
                    /\ fetches < max_attempts]_vars
    /\ [](outcome = NoLiveError =>
             /\ fetches = 3 /\ NoRoundLive
             /\ scrolls = 2
             /\ errAttempts = 3)
    /\ [](errAttempts # 0 => outcome = NoLiveError)

\* the call gave up after its third round, two scrolls behind it
C13_Witness ==
    /\ sel = "raised" /\ outcome = NoLiveError
    /\ fetches = 3 /\ scrolls = 2 /\ errAttempts = 3

(* ---- banners that are there ---- *)
\* a call of handler op on a page that shows its banner is this step
BannerCall(op) ==
    /\ opCalls' = opCalls + 1
    /\ opLast'.op = op
    /\ opLast'.arg # "absent"

\* C14 as stated: a call of either handler on a page that shows its banner
\* clicks the button at most once, and when it returns normally it has
\* clicked it exactly once and the banner is no longer visible.
C14_BothClickOnceAndWait ==
    [][/\ BannerCall("handle_cookies_banner") =>
              /\ opClicks' \in {opClicks, opClicks + 1}
              /\ opLast'.exc = "ok" =>
                     (opClicks' = opClicks + 1 /\ cookie' = "absent")
       /\ BannerCall("handle_video_banner") =>
              /\ opClicks' \in {opClicks, opClicks + 1}
              /\ opLast'.exc = "ok" =>
                     (opClicks' = opClicks + 1 /\ vbanner' = "absent")]_vars

\* C14 amended: on a page that shows its banner each handler clicks the
\* button at most once and exactly once when it returns normally.
\* handle_cookies_banner returns normally only with the banner no longer
\* visible: a banner that stays makes its invisibility wait time out.
\* handle_video_banner waits for nothing after its click: it returns
\* normally whenever the button could be clicked, after the probe and the
\* click's own wait, and a banner that stays is still visible then.
C14_ClickOnceCookiesWaits ==
    [][/\ BannerCall("handle_cookies_banner") =>
              /\ opClicks' \in {opClicks, opClicks + 1}
              /\ opLast'.exc = "ok" =>
                     (opClicks' = opClicks + 1 /\ cookie' = "absent")
              /\ cookie = "sticky" =>
                     (opLast'.exc = "TimeoutException" /\ opClicks' = opClicks + 1)
       /\ BannerCall("handle_video_banner") =>
              /\ opClicks' \in {opClicks, opClicks + 1}
              /\ opLast'.exc = "ok" <=> vbanner \in {"present", "sticky"}
              /\ opLast'.exc = "ok" =>
                     /\ opClicks' = opClicks + 1
                     /\ opWaits' = opWaits + 2
                     /\ vbanner' = "absent" <=> vbanner = "present"]_vars

\* handle_video_banner returned normally and its banner is still on the page
C14_Witness ==
    /\ opLast.op = "handle_video_banner"
    /\ opLast.arg = "sticky" /\ opLast.exc = "ok"
    /\ vbanner = "sticky"
    /\ opClicks >= 1

(* ---- wait_to_load_stream ---- *)
\* the injected script would evaluate to true on the page
ScriptTrue == page.video_stays /\ page.readyState >= READY_THRESHOLD

\* C15 as stated: the script is executed only after the video was seen
\* visible; the call returns normally only if the script then evaluated to
\* true; and when the video never becomes visible or the script never
\* evaluates to true the call raises TimeoutException.
C15_TwoStageGateTimeout ==
    opLast.op = "wait_to_load_stream" =>
        /\ opLast.ret => page.video
        /\ opLast.exc = "ok" => (opLast.ret /\ page.video /\ ScriptTrue)
        /\ ~(page.video /\ ScriptTrue) => opLast.exc = "TimeoutException"

\* C15 amended: the script is executed only after the video was seen visible,
\* and exactly then; the call returns normally exactly when the script then
\* evaluated to true; it raises TimeoutException when the video never
\* becomes visible or the script keeps evaluating to false; and when the
\* script throws, the video element being gone from the document by then,
\* the driver's JavascriptException leaves the call instead.
C15_TwoStageGateAmended ==
    opLast.op = "wait_to_load_stream" =>
        /\ opLast.ret <=> page.video
        /\ opLast.exc = "ok" <=> (page.video /\ ScriptTrue)
        /\ ~page.video => opLast.exc = "TimeoutException"
        /\ (page.video /\ page.video_stays /\ ~ScriptTrue) =>
               opLast.exc = "TimeoutException"
        /\ (page.video /\ ~page.video_stays) =>
               opLast.exc = "JavascriptException"

\* the video was seen visible, the script ran and stayed false at ready
\* state 2: the call timed out in its second stage
C15_Witness ==
    /\ opLast.op = "wait_to_load_stream"
    /\ page.video /\ page.video_stays /\ page.readyState = 2
    /\ opLast.ret
    /\ opLast.exc = "TimeoutException"

(* ---- snapshots and replaced results ---- *)
StaleError == "StaleElementReferenceException"
\* every round's snapshot is the result list as it is at that round's fetch,
\* made of attached elements, and nothing but a fetch changes the snapshot
FreshSnapshots ==
    [][/\ fetches' # fetches =>
              (fetches' = fetches + 1 /\ channels' = dom /\ ~stale')
       /\ channels' # channels => fetches' = fetches + 1]_vars
\* the one element clicked is an attached element of the current snapshot
ClicksCurrentSnapshot ==
    found_stream =>
        /\ Len(clicked) = 1
        /\ clicked[1] \in 1..Len(channels)
        /\ ~stale

\* C16 as stated: every round scans a snapshot fetched at its start, the
\* call never ends in a stale-element error whenever the page replaces or
\* adds results, and the element clicked is one of the current snapshot.
C16_NeverStale ==
    /\ FreshSnapshots
    /\ [](outcome # StaleError)
    /\ []ClicksCurrentSnapshot

\* C16 amended: every round scans a snapshot fetched at its start, and the
\* element clicked is one of the current snapshot.  Results the page replaced
\* before a round's fetch do not fail that round.  The call ends in a
\* stale-element error only when the page replaced the current round's
\* elements after their fetch, and then the next probe or click of the round
\* raises it.
C16_FreshPerRoundStaleWithin ==
    /\ FreshSnapshots
    /\ []ClicksCurrentSnapshot
    /\ [](outcome = StaleError => (sel = "raised" /\ stale))
    /\ [][(/\ pc = "select_stream" /\ changes' = changes /\ stale
            /\ \/ sel = "click"
               \/ sel = "scan" /\ idx <= Len(channels)) =>
             (outcome' = StaleError /\ sel' = "raised")]_vars

\* the page replaced the results of an earlier round before the next fetch,
\* and the call went on to click a live result of the new list and returned
C16_Witness ==
    /\ sel = "returned"
    /\ refetched
    /\ fetches >= 2
    /\ clicked # <<>>

(* ---- a click that fails ---- *)
\* C17: when the click on the first live match of a round fails, the element
\* never becoming displayed and enabled or being detached, that step ends
\* select_stream_from_results with the click's own error, not with the
\* no-live-stream error, whatever the round; nothing was clicked, and no
\* further element is probed, no scroll made and no list fetched, in that
\* step or after it.
C17_ClickFailurePropagates ==
    /\ [][(/\ pc = "select_stream" /\ sel = "click" /\ changes' = changes
            /\ (stale \/ blocked')) =>
             /\ sel' = "raised"
             /\ outcome' = IF stale THEN StaleError ELSE "TimeoutException"
             /\ pc' = "teardown"
             /\ UNCHANGED <<clicked, found_stream, idx, attempt, scrolls,
                            fetches, errAttempts>>]_vars
    /\ [][sel = "raised" =>
             UNCHANGED <<sel, outcome, clicked, found_stream, idx, attempt,
                         scrolls, fetches, errAttempts>>]_vars
    /\ [](blocked =>
             /\ sel = "raised"
             /\ outcome \in {"TimeoutException", StaleError}
             /\ clicked = <<>> /\ ~found_stream
             /\ scrolls = fetches - 1)

\* the first live result of the first round never became clickable: the call
\* ended in the timeout with a later live result of the same list untouched
\* and two rounds unused
C17_Witness ==
    /\ sel = "raised" /\ blocked
    /\ outcome = "TimeoutException"
    /\ fetches = 1 /\ scrolls = 0
    /\ channels = <<"offline", "live", "live">>
    /\ idx = 2
    /\ clicked = <<>>

====
